---------------------------- MODULE Spec2Model ----------------------------
(***************************************************************************)
(* RustGravity: the simulation engine (space_computation.rs) and the      *)
(* per-session execution scheduler, registry and request handlers          *)
(* (main.rs).                                                              *)
(*                                                                         *)
(* Numbers.  An f64 is modelled as a record [k, v]: k = "fin" with an      *)
(* integer v (fixed point, resolution 1, division and square root          *)
(* rounding towards zero), k = "inf" with v the sign, or k = "nan".        *)
(* Time is counted in units of 1/120 s, so that the emission interval of   *)
(* 1/60 s is 2 units and a time_delta of 1 unit gives two micro-steps per  *)
(* tick.                                                                   *)
(***************************************************************************)
EXTENDS Integers, Sequences, FiniteSets, TLC

(***************************************************************************)
(* Bounds of the model.                                                    *)
(***************************************************************************)
\* number of concurrently running request handlers
NumHandlers == 2
\* number of loop threads ever spawned in one behaviour
MaxLoops == 2
\* number of calculate_step calls applied to the engine under test
MaxCalls == 2
\* number of loop threads ever spawned under the fair scheduler
LiveLoops == 1
\* number of loop threads ever spawned in the server with control input
ControlLoops == 2
\* number of bodies handed to a call of Simulation::new on its own
MaxBodies == 2
\* the longest simulation_time of a request whose ticks are counted
MaxTime == 5

\* the value of e from the singleton {e}: an operand is evaluated once and
\* then used by value, as the operand of a Rust expression is
Bind(S) == CHOOSE x \in S : TRUE

(***************************************************************************)
(* f64 arithmetic.                                                         *)
(***************************************************************************)
Fin(n) == [k |-> "fin", v |-> n]
NaN == [k |-> "nan", v |-> 0]
Inf(s) == [k |-> "inf", v |-> s]

Sgn(n) == IF n > 0 THEN 1 ELSE IF n < 0 THEN -1 ELSE 0
Abs(n) == IF n < 0 THEN -n ELSE n

\* integer quotient rounded towards zero
TruncDiv(a, b) == Sgn(a) * Sgn(b) * (Abs(a) \div Abs(b))

\* integer square root rounded down, n >= 0
ISqrt(n) == CHOOSE r \in 0..n : r * r <= n /\ (r + 1) * (r + 1) > n

FNeg(a) ==
    LET neg(x) == IF x.k = "nan" THEN NaN ELSE [k |-> x.k, v |-> -x.v]
    IN  Bind({neg(x) : x \in {a}})

FAdd(a, b) ==
    LET add(x, y) ==
            IF x.k = "nan" \/ y.k = "nan" THEN NaN
            ELSE IF x.k = "inf" /\ y.k = "inf" THEN (IF x.v = y.v THEN x ELSE NaN)
            ELSE IF x.k = "inf" THEN x
            ELSE IF y.k = "inf" THEN y
            ELSE Fin(x.v + y.v)
    IN  Bind({add(x, y) : x \in {a}, y \in {b}})

FSub(a, b) == FAdd(a, FNeg(b))

FMul(a, b) ==
    LET mul(x, y) ==
            IF x.k = "nan" \/ y.k = "nan" THEN NaN
            ELSE IF x.k = "inf" \/ y.k = "inf"
                 THEN (IF x.v = 0 \/ y.v = 0 THEN NaN ELSE Inf(Sgn(x.v) * Sgn(y.v)))
            ELSE Fin(x.v * y.v)
    IN  Bind({mul(x, y) : x \in {a}, y \in {b}})

FDiv(a, b) ==
    LET div(x, y) ==
            IF x.k = "nan" \/ y.k = "nan" THEN NaN
            ELSE IF x.k = "inf" /\ y.k = "inf" THEN NaN
            ELSE IF x.k = "inf" THEN Inf(x.v * (IF y.v < 0 THEN -1 ELSE 1))
            ELSE IF y.k = "inf" THEN Fin(0)
            ELSE IF y.v = 0 THEN (IF x.v = 0 THEN NaN ELSE Inf(Sgn(x.v)))
            ELSE Fin(TruncDiv(x.v, y.v))
    IN  Bind({div(x, y) : x \in {a}, y \in {b}})

\* a <= b; every comparison with NaN is false
FLe(a, b) ==
    LET le(x, y) ==
            /\ x.k # "nan"
            /\ y.k # "nan"
            /\ IF x.k = "inf" THEN (x.v < 0 \/ (y.k = "inf" /\ y.v > 0))
               ELSE IF y.k = "inf" THEN y.v > 0
               ELSE x.v <= y.v
    IN  Bind({le(x, y) : x \in {a}, y \in {b}})

\* a < b
FLt(a, b) == Bind({FLe(x, y) /\ x # y : x \in {a}, y \in {b}})

\* f64::max: the other operand when one is NaN
FMax(a, b) ==
    LET max(x, y) ==
            IF x.k = "nan" THEN y
            ELSE IF y.k = "nan" THEN x
            ELSE IF FLe(x, y) THEN y ELSE x
    IN  Bind({max(x, y) : x \in {a}, y \in {b}})

FSqrt(a) ==
    LET sqrt(x) ==
            IF x.k = "nan" THEN NaN
            ELSE IF x.k = "inf" THEN (IF x.v > 0 THEN x ELSE NaN)
            ELSE IF x.v < 0 THEN NaN
            ELSE Fin(ISqrt(x.v))
    IN  Bind({sqrt(x) : x \in {a}})

\* r.powf(1.5)
Powf15(r) ==
    LET powf(x) ==
            IF x.k = "nan" THEN NaN
            ELSE IF x.k = "inf" THEN (IF x.v > 0 THEN x ELSE NaN)
            ELSE IF x.v < 0 THEN NaN
            ELSE Fin(ISqrt(x.v * x.v * x.v))
    IN  Bind({powf(x) : x \in {r}})

\* (x).floor() as usize: saturating, NaN becomes 0
FloorAsUsize(a) ==
    LET floor(x) ==
            IF x.k = "nan" THEN 0
            ELSE IF x.k = "inf" THEN (IF x.v > 0 THEN 1000000 ELSE 0)
            ELSE IF x.v < 0 THEN 0 ELSE x.v
    IN  Bind({floor(x) : x \in {a}})

(***************************************************************************)
(* Vector2<f64>.                                                           *)
(***************************************************************************)
Vec(x, y) == <<Fin(x), Fin(y)>>
VZero == Vec(0, 0)
VAdd(a, b) == <<FAdd(a[1], b[1]), FAdd(a[2], b[2])>>
VSub(a, b) == <<FSub(a[1], b[1]), FSub(a[2], b[2])>>
VScale(s, a) == <<FMul(s, a[1]), FMul(s, a[2])>>
VDot(a, b) == FAdd(FMul(a[1], b[1]), FMul(a[2], b[2]))
VNorm(a) == FSqrt(VDot(a, a))
\* Vector2::normalize: divides by the norm, with no test for a zero norm
VNormalize(a) == <<FDiv(a[1], VNorm(a)), FDiv(a[2], VNorm(a))>>


(***************************************************************************)
(* space_computation.rs: bodies and the engine.                            *)
(* A SpaceObject is [mass, radius, position, velocity, acceleration,       *)
(* movement_type]; its name has no effect on any operation and is left     *)
(* out.  Result<T, E> is [ok |-> TRUE, val |-> t] or                       *)
(* [ok |-> FALSE, msg |-> e].  Option<ControllableAcceleration> is the     *)
(* record [some, right, left, up, down].                                   *)
(***************************************************************************)
MovementType == {"Static", "Ordinary", "Controllable"}
CollisionType == {"Traversing", "Elastic"}

Ok(x) == [ok |-> TRUE, val |-> x]
Err(m) == [ok |-> FALSE, msg |-> m]

SpaceObject_new(mass, radius, position, velocity, movement_type) ==
    IF FLe(mass, Fin(0)) THEN Err("Mass must be positive")
    ELSE IF FLe(radius, Fin(0)) THEN Err("Radius must be positive")
    ELSE Ok([mass |-> mass,
             radius |-> radius,
             position |-> position,
             velocity |-> IF movement_type = "Static" THEN VZero ELSE velocity,
             acceleration |-> VZero,
             movement_type |-> movement_type])

ControllableAcceleration_default ==
    [some |-> TRUE, right |-> FALSE, left |-> FALSE, up |-> FALSE, down |-> FALSE]
ControllableAcceleration_none ==
    [some |-> FALSE, right |-> FALSE, left |-> FALSE, up |-> FALSE, down |-> FALSE]

calculate_new_normal_velocity(m1, m2, v1, v2, e) ==
    [i \in 1..2 |->
        FDiv(FAdd(FMul(FSub(m1, FMul(e, m2)), v1[i]),
                  FMul(FMul(FAdd(Fin(1), e), m2), v2[i])),
             FAdd(m1, m2))]

maybe_update_velocity(movement_type, own_mass, other_mass, own_v, other_v, elasticity) ==
    IF movement_type # "Static"
    THEN calculate_new_normal_velocity(own_mass, other_mass, own_v, other_v, elasticity)
    ELSE own_v

\* the count of line 146..150 as it would be if it stopped at the first body
CountControllableFirst(space_objects) ==
    Cardinality({i \in DOMAIN space_objects :
                    i = 1 /\ space_objects[i].movement_type = "Controllable"})

CountControllable(space_objects) ==
    Cardinality({i \in DOMAIN space_objects :
                    space_objects[i].movement_type = "Controllable"})

\* Simulation::new as it would be with the test of g before that of simulation_time
Simulation_newGravityFirst(space_objects, time_delta, simulation_time, g, collision_type, acceleration_rate, elasticity_coefficient) ==
    IF CountControllable(space_objects) > 1
    THEN Err("Multiple controllable objects are not supported")
    ELSE IF FLe(time_delta, Fin(0)) THEN Err("Time delta must be positive")
    ELSE IF FLe(g, Fin(0)) THEN Err("Gravity constant must be positive")
    ELSE IF FLe(simulation_time, Fin(0)) THEN Err("Simulation time must be positive")
    ELSE IF FLe(acceleration_rate, Fin(0)) THEN Err("Acceleration rate must be positive")
    ELSE IF FLt(elasticity_coefficient, Fin(0)) \/ FLt(Fin(1), elasticity_coefficient)
    THEN Err("Elasticity coefficient must be in [0, 1]")
    ELSE Ok([space_objects |-> space_objects,
             time_delta |-> time_delta,
             simulation_time |-> simulation_time,
             g |-> g,
             collision_type |-> collision_type,
             acceleration_rate |-> acceleration_rate,
             elasticity_coefficient |-> elasticity_coefficient,
             controllable_acceleration |->
                 IF \E i \in DOMAIN space_objects :
                        space_objects[i].movement_type = "Controllable"
                 THEN ControllableAcceleration_default
                 ELSE ControllableAcceleration_none])

Simulation_new(space_objects, time_delta, simulation_time, g, collision_type, acceleration_rate, elasticity_coefficient) ==
    IF CountControllable(space_objects) > 1
    THEN Err("Multiple controllable objects are not supported")
    ELSE IF FLe(time_delta, Fin(0)) THEN Err("Time delta must be positive")
    ELSE IF FLe(simulation_time, Fin(0)) THEN Err("Simulation time must be positive")
    ELSE IF FLe(g, Fin(0)) THEN Err("Gravity constant must be positive")
    ELSE IF FLe(acceleration_rate, Fin(0)) THEN Err("Acceleration rate must be positive")
    ELSE IF FLt(elasticity_coefficient, Fin(0)) \/ FLt(Fin(1), elasticity_coefficient)
    THEN Err("Elasticity coefficient must be in [0, 1]")
    ELSE Ok([space_objects |-> space_objects,
             time_delta |-> time_delta,
             simulation_time |-> simulation_time,
             g |-> g,
             collision_type |-> collision_type,
             acceleration_rate |-> acceleration_rate,
             elasticity_coefficient |-> elasticity_coefficient,
             controllable_acceleration |->
                 IF \E i \in DOMAIN space_objects :
                        space_objects[i].movement_type = "Controllable"
                 THEN ControllableAcceleration_default
                 ELSE ControllableAcceleration_none])

\* a Simulation that Simulation::new builds for no bodies
EmptySimulation ==
    Simulation_new(<<>>, Fin(1), Fin(1), Fin(1), "Elastic", Fin(1), Fin(1)).val

\* the pairs (i, j), i < j, pushed by the detection loops, in push order
RECURSIVE CollectCollisions(_, _, _)
CollectCollisions(objs, i, j) ==
    IF i > Len(objs) THEN <<>>
    ELSE IF j > Len(objs) THEN CollectCollisions(objs, i + 1, i + 2)
    ELSE LET distance == VNorm(VSub(objs[j].position, objs[i].position))
             min_distance == FAdd(objs[i].radius, objs[j].radius)
         IN  (IF FLe(distance, min_distance) THEN <<(<<i, j>>)>> ELSE <<>>)
                 \o CollectCollisions(objs, i, j + 1)

\* the response to one pair as it would be if the second body were updated
\* against the normal velocity the first body has just been given
RespondCollisionUpdated(objs, i, j, elasticity) ==
    LET delta_pos == VSub(objs[j].position, objs[i].position)
        v_i == objs[i].velocity
        v_j == objs[j].velocity
        Respond(normal) ==
            LET tangent == <<FNeg(normal[2]), normal[1]>>
                v_i_n_vec == VScale(VDot(v_i, normal), normal)
                v_i_t_vec == VScale(VDot(v_i, tangent), tangent)
                v_j_n_vec == VScale(VDot(v_j, normal), normal)
                v_j_t_vec == VScale(VDot(v_j, tangent), tangent)
                new_v_i_n_vec == maybe_update_velocity(objs[i].movement_type,
                                     objs[i].mass, objs[j].mass, v_i_n_vec, v_j_n_vec,
                                     elasticity)
                new_v_j_n_vec == maybe_update_velocity(objs[j].movement_type,
                                     objs[j].mass, objs[i].mass, v_j_n_vec,
                                     new_v_i_n_vec, elasticity)
            IN  [objs EXCEPT ![i].velocity = VAdd(new_v_i_n_vec, v_i_t_vec),
                             ![j].velocity = VAdd(new_v_j_n_vec, v_j_t_vec)]
    IN  Bind({Respond(normal) : normal \in {VNormalize(delta_pos)}})

\* the response to one pair, applied to the current bodies
RespondCollision(objs, i, j, elasticity) ==
    LET delta_pos == VSub(objs[j].position, objs[i].position)
        v_i == objs[i].velocity
        v_j == objs[j].velocity
        Respond(normal) ==
            LET tangent == <<FNeg(normal[2]), normal[1]>>
                v_i_n_vec == VScale(VDot(v_i, normal), normal)
                v_i_t_vec == VScale(VDot(v_i, tangent), tangent)
                v_j_n_vec == VScale(VDot(v_j, normal), normal)
                v_j_t_vec == VScale(VDot(v_j, tangent), tangent)
                new_v_i_n_vec == maybe_update_velocity(objs[i].movement_type,
                                     objs[i].mass, objs[j].mass, v_i_n_vec, v_j_n_vec,
                                     elasticity)
                new_v_j_n_vec == maybe_update_velocity(objs[j].movement_type,
                                     objs[j].mass, objs[i].mass, v_j_n_vec, v_i_n_vec,
                                     elasticity)
            IN  [objs EXCEPT ![i].velocity = VAdd(new_v_i_n_vec, v_i_t_vec),
                             ![j].velocity = VAdd(new_v_j_n_vec, v_j_t_vec)]
    IN  Bind({Respond(normal) : normal \in {VNormalize(delta_pos)}})

RECURSIVE RespondAll(_, _, _)
RespondAll(objs, collisions, elasticity) ==
    IF collisions = <<>> THEN objs
    ELSE Bind({RespondAll(next, Tail(collisions), elasticity) :
                 next \in {RespondCollision(objs, collisions[1][1], collisions[1][2],
                                            elasticity)}})

calculate_collisions(sim) ==
    [sim EXCEPT !.space_objects =
        RespondAll(sim.space_objects, CollectCollisions(sim.space_objects, 1, 2),
                   sim.elasticity_coefficient)]

\* the sum over the bodies j..n of the gravitational terms on body i
RECURSIVE GravitySum(_, _, _)
GravitySum(sim, i, j) ==
    IF j > Len(sim.space_objects) THEN VZero
    ELSE LET r_vec == VSub(sim.space_objects[j].position, sim.space_objects[i].position)
             Term(r_norm) ==
                 IF i = j \/ r_norm = Fin(0) THEN VZero
                 ELSE VScale(FDiv(FMul(sim.g, sim.space_objects[j].mass),
                                  Powf15(r_norm)), r_vec)
         IN  Bind({VAdd(term, rest) : term \in {Bind({Term(r_norm) : r_norm \in {VNorm(r_vec)}})},
                                      rest \in {GravitySum(sim, i, j + 1)}})

B2F(b) == IF b THEN Fin(1) ELSE Fin(0)

calculate_acceleration(sim, i) ==
    IF sim.space_objects[i].movement_type = "Static" THEN VZero
    ELSE LET ctrl == sim.controllable_acceleration
             direction == <<FSub(B2F(ctrl.right), B2F(ctrl.left)),
                            FSub(B2F(ctrl.up), B2F(ctrl.down))>>
         IN  IF sim.space_objects[i].movement_type = "Controllable" /\ ctrl.some
             THEN VAdd(GravitySum(sim, i, 1), VScale(sim.acceleration_rate, direction))
             ELSE GravitySum(sim, i, 1)

\* the integration loop as it would be if the velocity took the acceleration
\* of the same step
IntegrateNoLag(sim) ==
    [sim EXCEPT !.space_objects =
        [i \in DOMAIN sim.space_objects |->
            LET o == sim.space_objects[i]
            IN  IF o.movement_type # "Static"
                THEN [o EXCEPT !.acceleration = calculate_acceleration(sim, i),
                               !.position = VAdd(o.position,
                                                 VScale(sim.time_delta, o.velocity)),
                               !.velocity = VAdd(o.velocity,
                                                 VScale(sim.time_delta,
                                                        calculate_acceleration(sim, i)))]
                ELSE o]]

\* the integration loop of lines 291..302 over the bodies of sim
Integrate(sim) ==
    [sim EXCEPT !.space_objects =
        [i \in DOMAIN sim.space_objects |->
            LET o == sim.space_objects[i]
            IN  IF o.movement_type # "Static"
                THEN [o EXCEPT !.acceleration = calculate_acceleration(sim, i),
                               !.position = VAdd(o.position,
                                                 VScale(sim.time_delta, o.velocity)),
                               !.velocity = VAdd(o.velocity,
                                                 VScale(sim.time_delta, o.acceleration))]
                ELSE o]]

calculate_step(sim0) ==
    Bind({Integrate(sim) :
            sim \in {IF sim0.collision_type = "Elastic"
                     THEN calculate_collisions(sim0) ELSE sim0}})


(***************************************************************************)
(* main.rs: the state of the server.                                       *)
(*                                                                         *)
(* Every SimulationExecutionPool ever built has an index l in 1..Len(execs)*)
(* execs[l] holds its user id, its stop_flag and the state of the thread   *)
(* behind its JoinHandle; sims[l] is its Arc<Mutex<Simulation>>; loops[l]  *)
(* is the thread that simulate_loop spawns; tx[l] lists what that thread   *)
(* has sent on the broadcast channel.                                      *)
(***************************************************************************)
VARIABLES
    pools,       \* AppState.pools: user id -> index of its pool, 0 when absent
    pools_lock,  \* the handler that holds the mutex of pools, 0 when free
    execs,       \* [user_id, stop_flag, thread] of every pool
    sims,        \* [lock, val]: the mutex and the Simulation of every pool
    loops,       \* [pc, step_count, i, steps_per_emit, total_steps, snapshot]
    tx,          \* per loop, the sequence of snapshots it has sent
    handlers,    \* per request handler: [pc, kind, user_id, data, press, pool]
    resp,        \* the response sent in the last step: [handler, user_id, status, message]
    hist,        \* per pool, history: step_count and Len(tx) when the flag was stored
    engine,      \* a Simulation stepped on its own
    calls,       \* the number of calculate_step calls applied to engine
    args,        \* the arguments of a call of Simulation::new on its own
    built        \* the result of that call, once it has returned

vars == <<pools, pools_lock, execs, sims, loops, tx, handlers, resp, hist, engine, calls, args, built>>

Handlers == 1..NumHandlers
UserIds == {"a", "b"}
\* the button_press events sent to the server
Presses == {[direction |-> "right", is_pressed |-> TRUE]}

\* target_step_time, 1/60 s, in time units of 1/120 s
target_step_time == 2

Body(mass, radius, px, vx, movement_type) ==
    [mass |-> Fin(mass), radius |-> Fin(radius), position |-> Vec(px, 0),
     velocity |-> Vec(vx, 0), acceleration |-> VZero, movement_type |-> movement_type]

\* the request bodies of launch_simulation, after the defaults are filled in:
\* one that Simulation::new accepts, with an Ordinary body and a Static body
\* that is given the mass 0 and a velocity, and one that it rejects
LaunchData ==
    [time_delta : {Fin(0), Fin(1)},
     simulation_time : {Fin(3)},
     g : {Fin(1)},
     acceleration_rate : {Fin(1)},
     elasticity_coefficient : {Fin(1)},
     collision_type : {"Elastic"},
     space_objects : {<<Body(1, 1, 0, 1, "Ordinary"), Body(0, 1, 3, 1, "Static")>>}]

\* the data and press fields of a handler that serves no such request
NoData == [none |-> TRUE]
NoPress == [direction |-> "up", is_pressed |-> FALSE]
\* no response is sent in a step; the answers of lines 230 and 239; of line 206
NoResp == [handler |-> 0, user_id |-> "a", status |-> "none", message |-> ""]
Success(p, uid) == [handler |-> p, user_id |-> uid, status |-> "success", message |-> ""]
Failure(p, uid, msg) == [handler |-> p, user_id |-> uid, status |-> "error", message |-> msg]

IdleHandler ==
    [pc |-> "idle", kind |-> "none", user_id |-> "a", data |-> NoData,
     press |-> NoPress, pool |-> 0]

NewLoop ==
    [pc |-> "unspawned", step_count |-> 0, i |-> 0, steps_per_emit |-> 0,
     total_steps |-> 0, snapshot |-> <<>>]

Pools == 1..Len(execs)

InitServer ==
    /\ pools = [u \in UserIds |-> 0]
    /\ pools_lock = 0
    /\ execs = <<>>
    /\ sims = <<>>
    /\ loops = <<>>
    /\ tx = <<>>
    /\ handlers = [p \in Handlers |-> IdleHandler]
    /\ resp = NoResp
    /\ hist = <<>>
    /\ calls = 0

\* no call of Simulation::new on its own is made
NoArgs == [none |-> TRUE]
NotBuilt == [returned |-> FALSE]

Init ==
    /\ InitServer
    /\ engine = EmptySimulation
    /\ args = NoArgs
    /\ built = NotBuilt

(***************************************************************************)
(* stop_execution_pool.  A request is taken up in the step in which its     *)
(* handler first locks the map; h is the handler serving it.                *)
(***************************************************************************)
\* the handler after stop_execution_pool has returned: launch_simulation goes
\* on to build the Simulation, delete_simulation answers, handle_socket ends
AfterStop(h) ==
    IF h.kind = "launch" THEN [h EXCEPT !.pc = "build", !.pool = 0] ELSE IdleHandler

\* line 239: delete_simulation answers as soon as stop_execution_pool returns
StopResp(p, h) == IF h.kind = "delete" THEN Success(p, h.user_id) ELSE NoResp

\* stop_execution_pool as it would be if an absent identity were an error
\* for delete_simulation
StopRemoveOrNotFound(p, h) ==
    LET l == pools[h.user_id]
    IN  /\ pools_lock = 0
        /\ IF l # 0
           THEN /\ pools' = [pools EXCEPT ![h.user_id] = 0]
                /\ pools_lock' = p
                /\ execs' = [execs EXCEPT ![l].stop_flag = TRUE]
                /\ hist' = [hist EXCEPT ![l].steps_at_stop = loops[l].step_count,
                                        ![l].sent_at_stop = Len(tx[l])]
                /\ handlers' = [handlers EXCEPT ![p] = [h EXCEPT !.pc = "join", !.pool = l]]
                /\ resp' = NoResp
           ELSE /\ handlers' = [handlers EXCEPT ![p] = AfterStop(h)]
                /\ resp' = IF h.kind = "delete"
                           THEN Failure(p, h.user_id, "No such simulation")
                           ELSE NoResp
                /\ UNCHANGED <<pools, pools_lock, execs, hist>>
        /\ UNCHANGED <<sims, loops, tx, engine, calls, args, built>>

\* lines 81..83: lock the map, remove the entry, store the flag
StopRemove(p, h) ==
    LET l == pools[h.user_id]
    IN  /\ pools_lock = 0
        /\ IF l # 0
           THEN /\ pools' = [pools EXCEPT ![h.user_id] = 0]
                /\ pools_lock' = p
                /\ execs' = [execs EXCEPT ![l].stop_flag = TRUE]
                /\ hist' = [hist EXCEPT ![l].steps_at_stop = loops[l].step_count,
                                        ![l].sent_at_stop = Len(tx[l])]
                /\ handlers' = [handlers EXCEPT ![p] = [h EXCEPT !.pc = "join", !.pool = l]]
                /\ resp' = NoResp
           ELSE /\ handlers' = [handlers EXCEPT ![p] = AfterStop(h)]
                /\ resp' = StopResp(p, h)
                /\ UNCHANGED <<pools, pools_lock, execs, hist>>
        /\ UNCHANGED <<sims, loops, tx, engine, calls, args, built>>

\* lines 84..86: join the thread of the JoinHandle, then unlock the map
StopJoin(p) ==
    LET h == handlers[p]
    IN  /\ h.pc = "join"
        /\ execs[h.pool].thread = "finished"
        /\ pools_lock' = 0
        /\ handlers' = [handlers EXCEPT ![p] = AfterStop(h)]
        /\ resp' = StopResp(p, h)
        /\ UNCHANGED <<pools, execs, sims, loops, tx, hist, engine, calls, args, built>>

LaunchesInFlight == Cardinality({p \in Handlers : handlers[p].kind = "launch"})

\* POST /launch_simulation, lines 154..172, up to the call at line 155
Launch(p, uid, data) ==
    /\ handlers[p].pc = "idle"
    /\ StopRemove(p, [IdleHandler EXCEPT !.kind = "launch", !.user_id = uid,
                                         !.data = data])

\* POST /delete_simulation
Delete(p, uid) ==
    /\ handlers[p].pc = "idle"
    /\ StopRemove(p, [IdleHandler EXCEPT !.kind = "delete", !.user_id = uid])

\* handle_socket leaves its loop: the live channel of uid has closed
ChannelClosed(p, uid) ==
    /\ handlers[p].pc = "idle"
    /\ StopRemove(p, [IdleHandler EXCEPT !.kind = "close", !.user_id = uid])

(***************************************************************************)
(* launch_simulation, after stop_execution_pool.                           *)
(***************************************************************************)
\* lines 173..211: the bodies are built as struct literals, with the mass,
\* radius and velocity of the request, and handed to Simulation::new
BuildSimulation(d) ==
    Simulation_new(d.space_objects, d.time_delta, d.simulation_time, d.g,
                   d.collision_type, d.acceleration_rate, d.elasticity_coefficient)

\* launch_simulation as it would be if the thread were spawned before the
\* result of Simulation::new is looked at, over no bodies on an error
LaunchBuildSpawnFirst(p) ==
    LET h == handlers[p]
        r == BuildSimulation(h.data)
    IN  /\ h.pc = "build"
        /\ execs' = Append(execs, [user_id |-> h.user_id, stop_flag |-> FALSE,
                                   thread |-> "running"])
        /\ sims' = Append(sims, [lock |-> "free",
                                 val |-> IF r.ok THEN r.val ELSE EmptySimulation])
        /\ loops' = Append(loops, NewLoop)
        /\ tx' = Append(tx, <<>>)
        /\ hist' = Append(hist, [steps_at_stop |-> 0, sent_at_stop |-> 0])
        /\ IF r.ok
           THEN /\ handlers' = [handlers EXCEPT ![p].pc = "insert",
                                                ![p].pool = Len(execs) + 1]
                /\ resp' = NoResp
           ELSE /\ handlers' = [handlers EXCEPT ![p] = IdleHandler]
                /\ resp' = Failure(p, h.user_id, r.msg)
        /\ UNCHANGED <<pools, pools_lock, engine, calls, args, built>>

\* lines 201..227: on an error answer with it, else spawn the thread
LaunchBuild(p) ==
    LET h == handlers[p]
        r == BuildSimulation(h.data)
    IN  /\ h.pc = "build"
        /\ IF r.ok
           THEN /\ execs' = Append(execs, [user_id |-> h.user_id, stop_flag |-> FALSE,
                                           thread |-> "running"])
                /\ sims' = Append(sims, [lock |-> "free", val |-> r.val])
                /\ loops' = Append(loops, NewLoop)
                /\ tx' = Append(tx, <<>>)
                /\ hist' = Append(hist, [steps_at_stop |-> 0, sent_at_stop |-> 0])
                /\ handlers' = [handlers EXCEPT ![p].pc = "insert",
                                                ![p].pool = Len(execs) + 1]
                /\ resp' = NoResp
           ELSE /\ handlers' = [handlers EXCEPT ![p] = IdleHandler]
                /\ resp' = Failure(p, h.user_id, r.msg)
                /\ UNCHANGED <<execs, sims, loops, tx, hist>>
        /\ UNCHANGED <<pools, pools_lock, engine, calls, args, built>>

\* lines 229..230: insert the pool, dropping the one it replaces, and answer
LaunchInsert(p) ==
    LET h == handlers[p]
    IN  /\ h.pc = "insert"
        /\ pools_lock = 0
        /\ pools' = [pools EXCEPT ![h.user_id] = h.pool]
        /\ handlers' = [handlers EXCEPT ![p] = IdleHandler]
        /\ resp' = Success(p, h.user_id)
        /\ UNCHANGED <<pools_lock, execs, sims, loops, tx, hist, engine, calls, args, built>>

(***************************************************************************)
(* handle_button_press.                                                    *)
(***************************************************************************)
\* the match of lines 103..109 as it would be with "right" also releasing "left"
SetDirectionExclusive(acc, press) ==
    IF ~acc.some THEN acc
    ELSE IF press.direction = "up" THEN [acc EXCEPT !.up = press.is_pressed]
    ELSE IF press.direction = "down" THEN [acc EXCEPT !.down = press.is_pressed]
    ELSE IF press.direction = "left" THEN [acc EXCEPT !.left = press.is_pressed]
    ELSE IF press.direction = "right"
         THEN [acc EXCEPT !.right = press.is_pressed, !.left = FALSE]
    ELSE acc

SetDirection(acc, press) ==
    IF ~acc.some THEN acc
    ELSE IF press.direction = "up" THEN [acc EXCEPT !.up = press.is_pressed]
    ELSE IF press.direction = "down" THEN [acc EXCEPT !.down = press.is_pressed]
    ELSE IF press.direction = "left" THEN [acc EXCEPT !.left = press.is_pressed]
    ELSE IF press.direction = "right" THEN [acc EXCEPT !.right = press.is_pressed]
    ELSE acc

\* lines 95..111: a button_press event of the live channel of uid.  The map is
\* locked and the pool looked up; the guard of the map lives to line 111.
\* With the simulation unlocked the direction is set and both locks are
\* dropped in the same step; otherwise the handler waits for the simulation
\* with the map locked.
ButtonPress(p, uid, press) ==
    LET l == pools[uid]
    IN  /\ handlers[p].pc = "idle"
        /\ pools_lock = 0
        /\ IF l = 0
           THEN /\ handlers' = [handlers EXCEPT ![p] = IdleHandler]
                /\ UNCHANGED <<pools_lock, sims>>
           ELSE IF sims[l].lock = "free"
           THEN /\ sims' = [sims EXCEPT ![l].val.controllable_acceleration =
                                SetDirection(@, press)]
                /\ handlers' = [handlers EXCEPT ![p] = IdleHandler]
                /\ UNCHANGED pools_lock
           ELSE /\ pools_lock' = p
                /\ handlers' = [handlers EXCEPT ![p] =
                       [IdleHandler EXCEPT !.pc = "press_sim", !.kind = "press",
                                           !.user_id = uid, !.press = press,
                                           !.pool = l]]
                /\ UNCHANGED sims
        /\ resp' = NoResp
        /\ UNCHANGED <<pools, execs, loops, tx, hist, engine, calls, args, built>>

\* lines 96..111 after the wait: lock the simulation, set the direction,
\* unlock both
PressApply(p) ==
    LET h == handlers[p]
    IN  /\ h.pc = "press_sim"
        /\ sims[h.pool].lock = "free"
        /\ sims' = [sims EXCEPT ![h.pool].val.controllable_acceleration =
                        SetDirection(@, h.press)]
        /\ pools_lock' = 0
        /\ handlers' = [handlers EXCEPT ![p] = IdleHandler]
        /\ resp' = NoResp
        /\ UNCHANGED <<pools, execs, loops, tx, hist, engine, calls, args, built>>

(***************************************************************************)
(* The thread of the JoinHandle and simulate_loop.                         *)
(***************************************************************************)
\* lines 219..221 and 248, 306: the spawned thread calls simulate_loop, which
\* spawns the loop thread and returns, and so the thread of the JoinHandle ends
ThreadRun(l) ==
    /\ execs[l].thread = "running"
    /\ execs' = [execs EXCEPT ![l].thread = "finished"]
    /\ loops' = [loops EXCEPT ![l].pc = "params"]
    /\ resp' = NoResp
    /\ UNCHANGED <<pools, pools_lock, sims, tx, handlers, hist, engine, calls, args, built>>

StepsPerEmit(sim) ==
    FloorAsUsize(FMax(FDiv(Fin(target_step_time), sim.time_delta), Fin(1)))

TotalSteps(sim) == FloorAsUsize(FDiv(sim.simulation_time, sim.time_delta))

\* the "state" array of one update_step event
Snapshot(sim) ==
    [i \in DOMAIN sim.space_objects |->
        [x |-> sim.space_objects[i].position[1],
         y |-> sim.space_objects[i].position[2],
         radius |-> sim.space_objects[i].radius]]

\* simulation.lock() at lines 253, 269 and 275
LoopLock(l) ==
    /\ loops[l].pc \in {"params", "step", "snapshot"}
    /\ sims[l].lock = "free"
    /\ sims' = [sims EXCEPT ![l].lock = "loop"]
    /\ resp' = NoResp
    /\ UNCHANGED <<pools, pools_lock, execs, loops, tx, handlers, hist, engine, calls, args, built>>

\* lines 252..259
LoopParams(l) ==
    /\ loops[l].pc = "params"
    /\ sims[l].lock = "loop"
    /\ loops' = [loops EXCEPT ![l].pc = "while",
                              ![l].steps_per_emit = StepsPerEmit(sims[l].val),
                              ![l].total_steps = TotalSteps(sims[l].val),
                              ![l].step_count = 0]
    /\ sims' = [sims EXCEPT ![l].lock = "free"]
    /\ resp' = NoResp
    /\ UNCHANGED <<pools, pools_lock, execs, tx, handlers, hist, engine, calls, args, built>>

\* the head of the while loop as it would be if a last batch shorter than
\* steps_per_emit were not run
LoopWhileWholeBatches(l) ==
    /\ loops[l].pc \in {"while", "sleep"}
    /\ loops' = [loops EXCEPT
           ![l].pc = IF /\ ~execs[l].stop_flag
                        /\ loops[l].step_count + loops[l].steps_per_emit
                               <= loops[l].total_steps
                     THEN "for" ELSE "done",
           ![l].i = 0]
    /\ resp' = NoResp
    /\ UNCHANGED <<pools, pools_lock, execs, sims, tx, handlers, hist, engine, calls, args, built>>

\* line 261, reached from line 259 or after the sleep of lines 300..304
LoopWhile(l) ==
    /\ loops[l].pc \in {"while", "sleep"}
    /\ loops' = [loops EXCEPT
           ![l].pc = IF ~execs[l].stop_flag /\ loops[l].step_count < loops[l].total_steps
                     THEN "for" ELSE "done",
           ![l].i = 0]
    /\ resp' = NoResp
    /\ UNCHANGED <<pools, pools_lock, execs, sims, tx, handlers, hist, engine, calls, args, built>>

\* the head of the for loop as it would be without the test of the flag
LoopForNoFlag(l) ==
    /\ loops[l].pc = "for"
    /\ loops' = [loops EXCEPT
           ![l].pc = IF /\ loops[l].i < loops[l].steps_per_emit
                        /\ ~(loops[l].step_count >= loops[l].total_steps)
                     THEN "step" ELSE "snapshot"]
    /\ resp' = NoResp
    /\ UNCHANGED <<pools, pools_lock, execs, sims, tx, handlers, hist, engine, calls, args, built>>

\* the head of the for loop as it would be without the test of the step count
LoopForNoBudget(l) ==
    /\ loops[l].pc = "for"
    /\ loops' = [loops EXCEPT
           ![l].pc = IF /\ loops[l].i < loops[l].steps_per_emit
                        /\ ~execs[l].stop_flag
                     THEN "step" ELSE "snapshot"]
    /\ resp' = NoResp
    /\ UNCHANGED <<pools, pools_lock, execs, sims, tx, handlers, hist, engine, calls, args, built>>

\* lines 264..267: the head of the for loop and its break
LoopFor(l) ==
    /\ loops[l].pc = "for"
    /\ loops' = [loops EXCEPT
           ![l].pc = IF /\ loops[l].i < loops[l].steps_per_emit
                        /\ ~(execs[l].stop_flag
                                \/ loops[l].step_count >= loops[l].total_steps)
                     THEN "step" ELSE "snapshot"]
    /\ resp' = NoResp
    /\ UNCHANGED <<pools, pools_lock, execs, sims, tx, handlers, hist, engine, calls, args, built>>

\* the engine step as it would be if the loop, holding the mutex of its
\* simulation, also needed the mutex of the map to take the step
LoopStepRegistry(l) ==
    /\ loops[l].pc = "step"
    /\ sims[l].lock = "loop"
    /\ pools_lock = 0
    /\ sims' = [sims EXCEPT ![l].val = calculate_step(@), ![l].lock = "free"]
    /\ loops' = [loops EXCEPT ![l].pc = "for",
                              ![l].step_count = @ + 1,
                              ![l].i = @ + 1]
    /\ resp' = NoResp
    /\ UNCHANGED <<pools, pools_lock, execs, tx, handlers, hist, engine, calls, args, built>>

\* lines 269..272, the guard dropped at the end of the iteration
LoopStep(l) ==
    /\ loops[l].pc = "step"
    /\ sims[l].lock = "loop"
    /\ sims' = [sims EXCEPT ![l].val = calculate_step(@), ![l].lock = "free"]
    /\ loops' = [loops EXCEPT ![l].pc = "for",
                              ![l].step_count = @ + 1,
                              ![l].i = @ + 1]
    /\ resp' = NoResp
    /\ UNCHANGED <<pools, pools_lock, execs, tx, handlers, hist, engine, calls, args, built>>

\* the snapshot as it would be if its guard lived to the end of the tick
LoopSnapshotHolding(l) ==
    /\ loops[l].pc = "snapshot"
    /\ sims[l].lock = "loop"
    /\ loops' = [loops EXCEPT ![l].pc = "send",
                              ![l].snapshot = <<[steps |-> loops[l].step_count,
                                                 state |-> Snapshot(sims[l].val)]>>]
    /\ resp' = NoResp
    /\ UNCHANGED <<pools, pools_lock, execs, sims, tx, handlers, hist, engine, calls, args, built>>

\* lines 274..296; steps is the number of engine steps the snapshot reflects
LoopSnapshot(l) ==
    /\ loops[l].pc = "snapshot"
    /\ sims[l].lock = "loop"
    /\ loops' = [loops EXCEPT ![l].pc = "send",
                              ![l].snapshot = <<[steps |-> loops[l].step_count,
                                                 state |-> Snapshot(sims[l].val)]>>]
    /\ sims' = [sims EXCEPT ![l].lock = "free"]
    /\ resp' = NoResp
    /\ UNCHANGED <<pools, pools_lock, execs, tx, handlers, hist, engine, calls, args, built>>

\* the send of line 298 as it would be if a snapshot overtook those sent before
LoopSendFirst(l) ==
    /\ loops[l].pc = "send"
    /\ tx' = [tx EXCEPT ![l] = loops[l].snapshot \o @]
    /\ loops' = [loops EXCEPT ![l].pc = "sleep", ![l].snapshot = <<>>]
    /\ resp' = NoResp
    /\ UNCHANGED <<pools, pools_lock, execs, sims, handlers, hist, engine, calls, args, built>>

\* lines 298..304: send, then sleep for the rest of the tick
LoopSend(l) ==
    /\ loops[l].pc = "send"
    /\ tx' = [tx EXCEPT ![l] = @ \o loops[l].snapshot]
    /\ loops' = [loops EXCEPT ![l].pc = "sleep", ![l].snapshot = <<>>]
    /\ resp' = NoResp
    /\ UNCHANGED <<pools, pools_lock, execs, sims, handlers, hist, engine, calls, args, built>>

(***************************************************************************)
(* The server.                                                             *)
(***************************************************************************)
HandlerStep(p) ==
    \/ StopJoin(p)
    \/ LaunchBuild(p)
    \/ LaunchInsert(p)
    \/ PressApply(p)

LoopThreadStep(l) ==
    \/ LoopLock(l)
    \/ LoopParams(l)
    \/ LoopWhile(l)
    \/ LoopFor(l)
    \/ LoopStep(l)
    \/ LoopSnapshot(l)
    \/ LoopSend(l)

\* the server in which at most n loop threads are ever spawned
ServerNext(n) ==
    \/ \E p \in Handlers, uid \in UserIds, data \in LaunchData :
           Len(execs) + LaunchesInFlight < n /\ Launch(p, uid, data)
    \/ \E p \in Handlers, uid \in UserIds : Delete(p, uid)
    \/ \E p \in Handlers, uid \in UserIds : ChannelClosed(p, uid)
    \/ \E p \in Handlers, uid \in UserIds, press \in Presses : ButtonPress(p, uid, press)
    \/ \E p \in Handlers : HandlerStep(p)
    \/ \E l \in Pools : ThreadRun(l)
    \/ \E l \in Pools : LoopThreadStep(l)

Next == ServerNext(MaxLoops)

Spec == Init /\ [][Next]_vars

\* the server under a fair scheduler: every thread that can run does run
LiveNext == ServerNext(LiveLoops)

FairSpec ==
    /\ Init
    /\ [][LiveNext]_vars
    /\ \A p \in Handlers : WF_vars(HandlerStep(p))
    /\ \A l \in 1..LiveLoops : WF_vars(l \in Pools /\ (ThreadRun(l) \/ LoopThreadStep(l)))

(***************************************************************************)
(* The server with control input: every identity is launched at most once, *)
(* "a" with a Controllable body and "b" without one, and button_press      *)
(* events of every direction arrive at any time.                           *)
(***************************************************************************)
\* the request body of identity uid: one body, Controllable and stepped once
\* for "a", Ordinary and never stepped (total_steps = 0) for "b"
ControlLaunchData(uid) ==
    [time_delta |-> IF uid = "a" THEN Fin(1) ELSE Fin(2),
     simulation_time |-> Fin(1),
     g |-> Fin(1),
     acceleration_rate |-> Fin(1),
     elasticity_coefficient |-> Fin(1),
     collision_type |-> "Traversing",
     space_objects |-> <<Body(1, 1, 0, 0, IF uid = "a" THEN "Controllable" ELSE "Ordinary")>>]

\* button_press events: the four directions and a name that is none of them
ControlPresses ==
    [direction : {"up", "down", "left", "right"}, is_pressed : BOOLEAN]
        \cup {[direction |-> "jump", is_pressed |-> TRUE]}

ControlNext ==
    \/ \E uid \in UserIds :
           /\ Len(execs) + LaunchesInFlight < ControlLoops
           /\ \A l \in Pools : execs[l].user_id # uid
           /\ Launch(1, uid, ControlLaunchData(uid))
    \/ \E uid \in UserIds, press \in ControlPresses : ButtonPress(2, uid, press)
    \/ LaunchBuild(1)
    \/ LaunchInsert(1)
    \/ PressApply(2)
    \/ \E l \in Pools : ThreadRun(l)
    \/ \E l \in Pools : LoopThreadStep(l)

ControlSpec == Init /\ [][ControlNext]_vars

(***************************************************************************)
(* One session that is launched once and never stopped, over requests      *)
(* whose time_delta and simulation_time give every shape of tick: no step  *)
(* at all, whole batches only, and a shorter last batch.                   *)
(***************************************************************************)
TickLaunchData ==
    [time_delta : {Fin(1), Fin(2), Fin(3)},
     simulation_time : {Fin(t) : t \in 1..MaxTime},
     g : {Fin(1)},
     acceleration_rate : {Fin(1)},
     elasticity_coefficient : {Fin(1)},
     collision_type : {"Traversing"},
     space_objects : {<<Body(1, 1, 0, 1, "Ordinary")>>}]

TickNext ==
    \/ \E data \in TickLaunchData :
           /\ execs = <<>>
           /\ LaunchesInFlight = 0
           /\ Launch(1, "a", data)
    \/ LaunchBuild(1)
    \/ LaunchInsert(1)
    \/ \E l \in Pools : ThreadRun(l)
    \/ \E l \in Pools : LoopThreadStep(l)

TickSpec == Init /\ [][TickNext]_vars

(***************************************************************************)
(* The server under a fair scheduler with several sessions: one handler    *)
(* launches and replaces the sessions of both identities while another     *)
(* deletes them, closes their channels and steers them, in any order.      *)
(* Every handler and every thread that can run does run.                   *)
(***************************************************************************)
LockPress == [direction |-> "up", is_pressed |-> TRUE]

LockNext ==
    \/ \E uid \in UserIds :
           /\ Len(execs) + LaunchesInFlight < MaxLoops
           /\ Launch(1, uid, ControlLaunchData(uid))
    \/ \E uid \in UserIds : Delete(2, uid)
    \/ \E uid \in UserIds : ChannelClosed(2, uid)
    \/ \E uid \in UserIds : ButtonPress(2, uid, LockPress)
    \/ \E p \in Handlers : HandlerStep(p)
    \/ \E l \in Pools : ThreadRun(l)
    \/ \E l \in Pools : LoopThreadStep(l)

LockSpec ==
    /\ Init
    /\ [][LockNext]_vars
    /\ \A p \in Handlers : WF_vars(HandlerStep(p))
    /\ \A l \in 1..MaxLoops : WF_vars(l \in Pools /\ (ThreadRun(l) \/ LoopThreadStep(l)))

(***************************************************************************)
(* The engine on its own: calculate_step applied to the Simulations of two *)
(* well-formed bodies on a line.                                           *)
(***************************************************************************)
\* bodies as SpaceObject::new builds them
EngineBodies ==
    {r.val : r \in {q \in {SpaceObject_new(Fin(m), Fin(1), Vec(px, 0), Vec(vx, 0), mt) :
                              m \in 0..2, px \in {0, 1, 3}, vx \in -1..1,
                              mt \in MovementType} : q.ok}}

EngineInputs ==
    {r.val : r \in {q \in {Simulation_new(<<b1, b2>>, Fin(1), Fin(3), Fin(1), ct,
                                          Fin(1), Fin(e)) :
                              b1 \in EngineBodies, b2 \in EngineBodies,
                              ct \in CollisionType, e \in 0..1} : q.ok}}

StepInit ==
    /\ InitServer
    /\ engine \in EngineInputs
    /\ args = NoArgs
    /\ built = NotBuilt

\* one call of calculate_step
Advance ==
    /\ calls < MaxCalls
    /\ engine' = calculate_step(engine)
    /\ calls' = calls + 1
    /\ UNCHANGED <<pools, pools_lock, execs, sims, loops, tx, handlers, resp, hist,
                   args, built>>

\* the button_press events applied to the engine on its own
EnginePresses ==
    {[direction |-> "right", is_pressed |-> TRUE],
     [direction |-> "right", is_pressed |-> FALSE],
     [direction |-> "up", is_pressed |-> TRUE]}

\* a button_press event applied to the engine between two calls
Steer ==
    /\ engine.controllable_acceleration.some
    /\ \E press \in EnginePresses :
           /\ engine' = [engine EXCEPT !.controllable_acceleration = SetDirection(@, press)]
           /\ engine' # engine
    /\ UNCHANGED <<pools, pools_lock, execs, sims, loops, tx, handlers, resp, hist,
                   calls, args, built>>

StepNext == Advance \/ Steer

StepSpec == StepInit /\ [][StepNext]_vars

(***************************************************************************)
(* calculate_collisions on its own: two or three overlapping bodies of      *)
(* radius 1 in a row along the x axis, one unit apart, in Elastic mode.    *)
(***************************************************************************)
\* the bodies that SpaceObject::new builds at position (x, 0)
CollideBodies(x) ==
    {r.val : r \in {SpaceObject_new(Fin(m), Fin(1), Vec(x, 0), Vec(vx, vy), mt) :
                       m \in 1..2, vx \in -1..1, vy \in 0..1,
                       mt \in {"Ordinary", "Static"}}}

CollideRows ==
    UNION {{f \in [1..n -> UNION {CollideBodies(x) : x \in 0..2}] :
               \A i \in 1..n : f[i].position = Vec(i - 1, 0)} : n \in 2..3}

CollideInputs ==
    {Simulation_new(row, Fin(1), Fin(3), Fin(1), "Elastic", Fin(1), Fin(e)).val :
        row \in CollideRows, e \in 0..1}

CollideInit ==
    /\ InitServer
    /\ engine \in CollideInputs
    /\ args = NoArgs
    /\ built = NotBuilt

\* the call of calculate_collisions at the head of the first calculate_step
Collide ==
    /\ calls = 0
    /\ engine' = calculate_collisions(engine)
    /\ calls' = 1
    /\ UNCHANGED <<pools, pools_lock, execs, sims, loops, tx, handlers, resp, hist,
                   args, built>>

CollideNext == Collide

CollideSpec == CollideInit /\ [][CollideNext]_vars

(***************************************************************************)
(* Simulation::new on its own: one call with up to MaxBodies bodies of any *)
(* movement type and with scalars that are negative, zero or positive; the *)
(* scalars are JSON numbers (main.rs 157..167) and so are finite.          *)
(***************************************************************************)
BuildBodies ==
    UNION {[1..n -> {Body(1, 1, 0, 0, mt) : mt \in MovementType}] : n \in 0..MaxBodies}

BuildScalars == {Fin(-1), Fin(0), Fin(1)}

BuildInputs ==
    [space_objects : BuildBodies,
     time_delta : BuildScalars,
     simulation_time : BuildScalars,
     g : BuildScalars,
     acceleration_rate : BuildScalars,
     elasticity_coefficient : BuildScalars \cup {Fin(2)},
     collision_type : {"Elastic"}]

BuildInit ==
    /\ InitServer
    /\ engine = EmptySimulation
    /\ args \in BuildInputs
    /\ built = NotBuilt

\* the call of Simulation::new
Construct ==
    /\ ~built.returned
    /\ built' = [returned |-> TRUE,
                 result |-> Simulation_new(args.space_objects, args.time_delta,
                                args.simulation_time, args.g, args.collision_type,
                                args.acceleration_rate, args.elasticity_coefficient)]
    /\ UNCHANGED <<pools, pools_lock, execs, sims, loops, tx, handlers, resp, hist,
                   engine, calls, args>>

BuildNext == Construct

BuildSpec == BuildInit /\ [][BuildNext]_vars

(***************************************************************************)
(* Properties.                                                             *)
(***************************************************************************)
\* a call of stop_execution_pool that removed pool l has returned
TornDown(l) ==
    /\ execs[l].stop_flag
    /\ \A p \in Handlers : ~(handlers[p].pc = "join" /\ handlers[p].pool = l)

\* C1: after the teardown of a session has returned, its loop executes no
\* engine step and publishes no snapshot.
C1_QuietAfterTeardown ==
    [][\A l \in Pools :
          TornDown(l) =>
              /\ loops'[l].step_count = loops[l].step_count
              /\ tx'[l] = tx[l]]_vars

\* pool l was torn down and a later loop of the same user has been started
Replaced(l) ==
    /\ TornDown(l)
    /\ \E l2 \in Pools : l2 > l /\ execs[l2].user_id = execs[l].user_id

\* C2: once Launch has started the new loop of an identity, the loop it tore
\* down publishes no snapshot.
C2_OldLoopSilent ==
    [][\A l \in Pools : Replaced(l) => tx'[l] = tx[l]]_vars

\* C3: when no request is in flight, every loop that is neither cancelled nor
\* finished is the one the registry holds for its identity.
C3_OneSessionPerIdentity ==
    (\A p \in Handlers : handlers[p].pc = "idle") =>
        \A l \in Pools :
            (~execs[l].stop_flag /\ loops[l].pc # "done") =>
                pools[execs[l].user_id] = l

\* a loop whose flag is set has executed at most one engine step and published
\* at most one snapshot since the flag was stored
C4_BoundedAfterStop ==
    \A l \in Pools :
        execs[l].stop_flag =>
            /\ loops[l].step_count <= hist[l].steps_at_stop + 1
            /\ Len(tx[l]) <= hist[l].sent_at_stop + 1

\* a loop whose flag is set leaves the head of the while loop only to exit
C4_NoNewTick ==
    \A l \in Pools :
        (execs[l].stop_flag /\ loops[l].pc \in {"while", "sleep"}) =>
            loops'[l].pc \in {loops[l].pc, "done"}

\* C4: once the flag of a loop is set the loop executes at most one further
\* engine step, publishes at most one further snapshot, starts no further
\* tick, and exits.
C4_CancelBounded ==
    /\ []C4_BoundedAfterStop
    /\ [][C4_NoNewTick]_vars
    /\ \A l \in 1..LiveLoops :
           (l \in Pools /\ execs[l].stop_flag) ~> (l \in Pools /\ loops[l].pc = "done")

\* a loop was stopped before a step it had already decided to take, took that
\* step, published the snapshot of the tick and exited
C4_Witness ==
    \E l \in Pools :
        /\ execs[l].stop_flag
        /\ loops[l].pc = "done"
        /\ loops[l].step_count = hist[l].steps_at_stop + 1
        /\ Len(tx[l]) = hist[l].sent_at_stop + 1

\* step_count never exceeds total_steps and is total_steps in a loop that has
\* ended without its flag set
C5_WithinBudget ==
    \A l \in Pools :
        /\ loops[l].step_count <= TotalSteps(sims[l].val)
        /\ (loops[l].pc = "done" /\ ~execs[l].stop_flag) =>
               loops[l].step_count = TotalSteps(sims[l].val)

\* C5: a loop never executes more than total_steps engine steps, and a loop
\* that is never cancelled ends, having executed exactly total_steps steps.
C5_StepBudget ==
    /\ []C5_WithinBudget
    /\ \A l \in 1..LiveLoops :
           (l \in Pools) ~> (l \in Pools /\ (execs[l].stop_flag \/ loops[l].pc = "done"))

\* a loop that was never cancelled has ended after its three steps
C5_Witness ==
    \E l \in Pools :
        /\ ~execs[l].stop_flag
        /\ loops[l].pc = "done"
        /\ loops[l].step_count = 3

\* the step of a Launch whose parameters Simulation::new rejects
C6_FailedLaunch ==
    \A p \in Handlers :
        (/\ handlers[p].pc = "build"
         /\ ~BuildSimulation(handlers[p].data).ok
         /\ handlers'[p] # handlers[p]) =>
            /\ resp' = Failure(p, handlers[p].user_id,
                               BuildSimulation(handlers[p].data).msg)
            /\ handlers'[p].pc = "idle"
            /\ UNCHANGED <<pools, execs, sims, loops, tx>>

\* C6: a Launch whose parameters fail validation answers with the reason,
\* spawns no thread and registers nothing.
C6_RejectedLaunchLeavesNothing == [][C6_FailedLaunch]_vars

\* a Launch has just answered with an error, after tearing down the session
\* of its identity, and the identity has no session
C6_Witness ==
    /\ resp.status = "error"
    /\ pools[resp.user_id] = 0
    /\ \E l \in Pools : execs[l].user_id = resp.user_id /\ execs[l].stop_flag

\* C7: every body of every registered session has a positive mass and a
\* positive radius.
C7_PositiveMassAndRadius ==
    \A u \in UserIds :
        pools[u] # 0 =>
            \A i \in DOMAIN sims[pools[u]].val.space_objects :
                LET o == sims[pools[u]].val.space_objects[i]
                IN  FLt(Fin(0), o.mass) /\ FLt(Fin(0), o.radius)

\* C8: in every session a Static body has zero velocity.
C8_StaticAtRest ==
    \A l \in Pools :
        \A i \in DOMAIN sims[l].val.space_objects :
            sims[l].val.space_objects[i].movement_type = "Static" =>
                sims[l].val.space_objects[i].velocity = VZero

\* C9: calculate_step leaves the position and the velocity of every Static
\* body as they were.
C9_StaticUnmoved ==
    [][\A i \in DOMAIN engine.space_objects :
          engine.space_objects[i].movement_type = "Static" =>
              /\ engine'.space_objects[i].position = engine.space_objects[i].position
              /\ engine'.space_objects[i].velocity = engine.space_objects[i].velocity]_vars

\* the step in which a Delete is taken up
C10_Delete ==
    \A p \in Handlers, u \in UserIds :
        Delete(p, u) =>
            /\ pools'[u] = 0
            /\ \A v \in UserIds \ {u} : pools'[v] = pools[v]
            /\ \A l \in Pools \ {pools[u]} :
                   execs'[l] = execs[l] /\ sims'[l] = sims[l] /\ loops'[l] = loops[l]
            /\ pools[u] = 0 =>
                   /\ UNCHANGED <<pools, pools_lock, execs, sims, loops, tx, hist>>
                   /\ handlers'[p].pc = "idle"
                   /\ resp' = Success(p, u)

\* C10: Delete leaves its identity without a session and every other session
\* as it was; for an identity without a session it changes nothing and
\* answers success.
C10_DeleteAbsentIsNoOp == [][C10_Delete]_vars

\* Delete has just answered success for an identity that never had a session,
\* while the session of another identity is registered and its loop runs
C10_Witness ==
    /\ resp.status = "success"
    /\ \A l \in Pools : execs[l].user_id # resp.user_id
    /\ \E v \in UserIds :
           /\ pools[v] # 0
           /\ loops[pools[v]].pc \in {"for", "step", "snapshot", "send", "sleep"}

\* the Simulation of pool l after the button_press event press has been applied
Pressed(l, press) ==
    LET sim == sims[l].val
        acc == sim.controllable_acceleration
    IN  IF acc.some /\ press.direction \in {"up", "down", "left", "right"}
        THEN [sim EXCEPT !.controllable_acceleration =
                 [acc EXCEPT ![press.direction] = press.is_pressed]]
        ELSE sim

\* the step in which a button_press event is taken up, and the step in which
\* one that had to wait for the simulation is applied
C11_Press ==
    /\ \A p \in Handlers, uid \in UserIds, press \in ControlPresses :
           ButtonPress(p, uid, press) =>
               /\ UNCHANGED <<pools, execs, loops, tx>>
               /\ resp' = NoResp
               /\ \A l \in Pools \ {pools[uid]} : sims'[l] = sims[l]
               /\ pools[uid] # 0 =>
                      sims'[pools[uid]].val =
                          IF sims[pools[uid]].lock = "free"
                          THEN Pressed(pools[uid], press)
                          ELSE sims[pools[uid]].val
    /\ \A p \in Handlers :
           PressApply(p) =>
               /\ UNCHANGED <<pools, execs, loops, tx>>
               /\ resp' = NoResp
               /\ \A l \in Pools \ {handlers[p].pool} : sims'[l] = sims[l]
               /\ sims'[handlers[p].pool].val = Pressed(handlers[p].pool, handlers[p].press)

\* C11: a button_press event sets the named direction of the session of its
\* identity and nothing else; an unknown direction, an identity without a
\* session and a session without control state change nothing, and no error
\* is answered.
C11_ControlInputFrame == [][C11_Press]_vars

\* "left" and "up" are held in a session whose loop is about to step, and
\* another session is registered
C11_Witness ==
    \E l \in Pools :
        /\ sims[l].val.controllable_acceleration.some
        /\ sims[l].val.controllable_acceleration.left
        /\ sims[l].val.controllable_acceleration.up
        /\ ~sims[l].val.controllable_acceleration.right
        /\ loops[l].pc = "step"
        /\ \E l2 \in Pools \ {l} : pools[execs[l2].user_id] = l2

\* the number of Controllable bodies among the arguments
Controllables == Cardinality({i \in DOMAIN args.space_objects :
                                 args.space_objects[i].movement_type = "Controllable"})

\* every scalar argument is in its range
ScalarsValid ==
    /\ FLt(Fin(0), args.time_delta)
    /\ FLt(Fin(0), args.simulation_time)
    /\ FLt(Fin(0), args.g)
    /\ FLt(Fin(0), args.acceleration_rate)
    /\ FLe(Fin(0), args.elasticity_coefficient)
    /\ FLe(args.elasticity_coefficient, Fin(1))

\* C12: Simulation::new fails with two or more Controllable bodies and, with
\* valid scalars, succeeds with none or one; a Simulation it builds has at most
\* one Controllable body, and has the control state, all four directions
\* false, exactly when it has one.
C12_OneControllable ==
    built.returned =>
        /\ Controllables >= 2 => ~built.result.ok
        /\ (ScalarsValid /\ Controllables <= 1) => built.result.ok
        /\ built.result.ok =>
               LET sim == built.result.val
                   acc == sim.controllable_acceleration
               IN  /\ sim.space_objects = args.space_objects
                   /\ Controllables <= 1
                   /\ acc.some <=> Controllables = 1
                   /\ acc.some => ~acc.up /\ ~acc.down /\ ~acc.left /\ ~acc.right

\* a Simulation of two bodies, the second one Controllable, has been built
C12_Witness ==
    /\ built.returned
    /\ built.result.ok
    /\ Len(args.space_objects) = 2
    /\ args.space_objects[2].movement_type = "Controllable"
    /\ built.result.val.controllable_acceleration.some

\* the conditions of construction in their order, each with its error
Conditions ==
    <<[met |-> Controllables <= 1,
       msg |-> "Multiple controllable objects are not supported"],
      [met |-> FLt(Fin(0), args.time_delta), msg |-> "Time delta must be positive"],
      [met |-> FLt(Fin(0), args.simulation_time),
       msg |-> "Simulation time must be positive"],
      [met |-> FLt(Fin(0), args.g), msg |-> "Gravity constant must be positive"],
      [met |-> FLt(Fin(0), args.acceleration_rate),
       msg |-> "Acceleration rate must be positive"],
      [met |-> /\ FLe(Fin(0), args.elasticity_coefficient)
               /\ FLe(args.elasticity_coefficient, Fin(1)),
       msg |-> "Elasticity coefficient must be in [0, 1]"]>>

Violated == {c \in DOMAIN Conditions : ~Conditions[c].met}

\* C13: Simulation::new succeeds exactly when no condition is violated, and
\* otherwise returns the error of the first violated condition in the order
\* controllable bodies, time_delta, simulation_time, g, acceleration_rate,
\* elasticity_coefficient.
C13_ValidationOrder ==
    built.returned =>
        /\ built.result.ok <=> Violated = {}
        /\ Violated # {} =>
               \E c \in Violated :
                   /\ \A d \in Violated : c <= d
                   /\ built.result = Err(Conditions[c].msg)

\* a call with simulation_time, g and elasticity_coefficient out of range has
\* returned the error of simulation_time
C13_Witness ==
    /\ built.returned
    /\ Violated = {3, 4, 6}
    /\ built.result = Err("Simulation time must be positive")

\* C14: the snapshots a loop has published reflect numbers of engine steps
\* that never decrease along the order of publication.
C14_SnapshotsInOrder ==
    \A l \in Pools :
        \A i, j \in DOMAIN tx[l] : i <= j => tx[l][i].steps <= tx[l][j].steps

\* a loop has published the snapshot of its first tick, after two steps, and
\* that of its second, after three
C14_Witness ==
    \E l \in Pools :
        /\ Len(tx[l]) = 2
        /\ tx[l][1].steps = 2
        /\ tx[l][2].steps = 3

\* C15: no handler holds the mutex of the map while it waits for the mutex of
\* a simulation or for a thread to end.
C15_RegistryLockScoped ==
    \A p \in Handlers :
        pools_lock = p =>
            /\ ~(handlers[p].pc = "press_sim" /\ sims[handlers[p].pool].lock # "free")
            /\ ~(handlers[p].pc = "join" /\ execs[handlers[p].pool].thread # "finished")

\* C16: the loop holds the mutex of its simulation only for its parameters,
\* for one engine step and for the snapshot: not while it sends, not while it
\* sleeps, and not between two engine steps.
C16_LoopLockScoped ==
    \A l \in Pools :
        sims[l].lock = "loop" => loops[l].pc \in {"params", "step", "snapshot"}

\* a loop that has taken two steps is about to send their snapshot, its
\* simulation unlocked
C16_Witness ==
    \E l \in Pools :
        /\ loops[l].pc = "send"
        /\ loops[l].step_count = 2
        /\ sims[l].lock = "free"

\* the bodies after the collision response of a call, before its integration
AfterCollisions ==
    IF engine.collision_type = "Elastic"
    THEN calculate_collisions(engine).space_objects
    ELSE engine.space_objects

\* a call of calculate_step: the velocity takes the acceleration stored by the
\* call before, and the stored acceleration becomes that of the state before
\* the call
C17_Lag ==
    calls' = calls + 1 =>
        \A i \in DOMAIN engine.space_objects :
            engine.space_objects[i].movement_type # "Static" =>
                /\ calls = 0 => engine.space_objects[i].acceleration = VZero
                /\ engine'.space_objects[i].velocity =
                       VAdd(AfterCollisions[i].velocity,
                            VScale(engine.time_delta, engine.space_objects[i].acceleration))
                /\ engine'.space_objects[i].position =
                       VAdd(engine.space_objects[i].position,
                            VScale(engine.time_delta, AfterCollisions[i].velocity))
                /\ engine'.space_objects[i].acceleration = calculate_acceleration(engine, i)

\* C17: in every call of calculate_step the velocity of a body that is not
\* Static grows by time_delta times the acceleration stored by the call before
\* (zero in the first call), and the acceleration the call computes, from the
\* positions and the control input before the call, is only stored.
C17_AccelerationLag == [][C17_Lag]_vars

\* after two calls with "right" held, the Controllable body has the velocity
\* that the acceleration of the first call gave it and a stored acceleration
C17_Witness ==
    /\ calls = 2
    /\ engine.controllable_acceleration.right
    /\ \E i \in DOMAIN engine.space_objects :
           /\ engine.space_objects[i].movement_type = "Controllable"
           /\ engine.space_objects[i].velocity = Vec(1, 0)
           /\ engine.space_objects[i].acceleration = Vec(1, 0)

\* the pairs of the call, in the order in which they are resolved
Collisions == CollectCollisions(engine.space_objects, 1, 2)

\* pair k is the last pair of the call that body b takes part in
LastPairOf(b, k) ==
    /\ b \in {Collisions[k][1], Collisions[k][2]}
    /\ \A n \in DOMAIN Collisions :
           n > k => b \notin {Collisions[n][1], Collisions[n][2]}

\* C18: every pair of a call is resolved against the velocities that its two
\* bodies had before the call: a body leaves the call with the velocity that
\* the last of its pairs gives it when computed from the bodies before the call.
C18_PairsIndependent ==
    [][calls' = calls + 1 =>
          \A k \in DOMAIN Collisions, b \in DOMAIN engine.space_objects :
              LastPairOf(b, k) =>
                  engine'.space_objects[b].velocity =
                      RespondCollision(engine.space_objects, Collisions[k][1],
                                       Collisions[k][2],
                                       engine.elasticity_coefficient)[b].velocity]_vars


\* the normal velocity the response formula gives a body, from its own and its
\* partner's normal velocity before the response
NormalFormula(m_self, m_other, v_self_n, v_other_n, e) ==
    FDiv(FAdd(FMul(FSub(m_self, FMul(e, m_other)), v_self_n),
              FMul(FMul(FAdd(Fin(1), e), m_other), v_other_n)),
         FAdd(m_self, m_other))

\* a pair of two bodies on the x axis: the contact normal is (1, 0), so the
\* normal component of a velocity is its x and the tangential one its y
EqualElasticPair(objs, e) ==
    /\ Len(objs) = 2
    /\ objs[1].movement_type # "Static"
    /\ objs[2].movement_type # "Static"
    /\ objs[1].mass = objs[2].mass
    /\ e = Fin(1)

C19_Response ==
    LET old == engine.space_objects
        new == engine'.space_objects
        e == engine.elasticity_coefficient
    IN  Len(old) = 2 =>
            /\ EqualElasticPair(old, e) =>
                   /\ new[1].velocity = <<old[2].velocity[1], old[1].velocity[2]>>
                   /\ new[2].velocity = <<old[1].velocity[1], old[2].velocity[2]>>
            /\ \A s \in 1..2 :
                   (old[s].movement_type # "Static"
                        /\ old[3 - s].movement_type = "Static") =>
                       /\ new[s].velocity =
                              <<NormalFormula(old[s].mass, old[3 - s].mass,
                                              old[s].velocity[1],
                                              old[3 - s].velocity[1], e),
                                old[s].velocity[2]>>
                       /\ new[3 - s].velocity = old[3 - s].velocity

\* C19: when calculate_collisions responds to one overlapping pair, two
\* non-Static bodies of equal mass with elasticity_coefficient 1 exchange their
\* velocity components along the contact normal and keep their tangential
\* components; in a pair with one Static body only the normal component of the
\* other body changes, to ((m_self - e*m_other)*v_self_n +
\* (1+e)*m_other*v_other_n) / (m_self + m_other) over the normal velocities
\* the two had before the response.
C19_ElasticResponse == [][calls' = calls + 1 => C19_Response]_vars

\* a pair of equal masses has collided with e = 1 and holds different normal
\* velocities and a tangential velocity
C19_Witness ==
    /\ calls = 1
    /\ EqualElasticPair(engine.space_objects, engine.elasticity_coefficient)
    /\ engine.space_objects[1].velocity[1] # engine.space_objects[2].velocity[1]
    /\ engine.space_objects[1].velocity[2] # Fin(0)

\* the quotient of n by d, rounded up
CeilDiv(n, d) == (n + d - 1) \div d

Min(a, b) == IF a <= b THEN a ELSE b

\* what a loop that was not cancelled has published so far
C20_Published(l) ==
    LET micro_steps_per_tick == StepsPerEmit(sims[l].val)
        total_steps == TotalSteps(sims[l].val)
        ticks == CeilDiv(total_steps, micro_steps_per_tick)
    IN  /\ Len(tx[l]) <= ticks
        /\ \A k \in DOMAIN tx[l] :
               tx[l][k].steps = Min(k * micro_steps_per_tick, total_steps)
        /\ loops[l].pc = "done" =>
               /\ Len(tx[l]) = ticks
               /\ total_steps = 0 => tx[l] = <<>>
               /\ tx[l] # <<>> =>
                      /\ tx[l][Len(tx[l])].steps = total_steps
                      /\ tx[l][Len(tx[l])].state = Snapshot(sims[l].val)

\* C20: a loop that is never cancelled publishes one snapshot after each batch
\* of micro_steps_per_tick = max(1, floor(target_step_time / time_delta))
\* engine steps, the last batch alone being shorter, so that when it ends it
\* has published ceil(total_steps / micro_steps_per_tick) snapshots, none when
\* total_steps = 0, and its last snapshot shows the bodies after all
\* total_steps steps.
C20_SnapshotCount ==
    \A l \in Pools : ~execs[l].stop_flag => C20_Published(l)

\* a loop of five steps, two to the tick, has ended after three snapshots
C20_Witness ==
    \E l \in Pools :
        /\ ~execs[l].stop_flag
        /\ loops[l].pc = "done"
        /\ TotalSteps(sims[l].val) = 5
        /\ StepsPerEmit(sims[l].val) = 2
        /\ Len(tx[l]) = 3

\* C21: under a fair scheduler no request is blocked for ever: every handler
\* that has begun a launch, a delete, a button press or the teardown of a
\* closed channel returns, and the mutex of the map, once taken, is released,
\* whatever the loops do meanwhile.
C21_DeadlockFree ==
    /\ \A p \in Handlers : (handlers[p].pc # "idle") ~> (handlers[p].pc = "idle")
    /\ (pools_lock # 0) ~> (pools_lock = 0)

\* a launch waits for the mutex of the map, which a button press holds while
\* it waits for the mutex of a simulation, which the loop holds for a step
C21_Witness ==
    \E p, q \in Handlers :
        /\ handlers[p].pc = "insert"
        /\ handlers[q].pc = "press_sim"
        /\ pools_lock = q
        /\ sims[handlers[q].pool].lock = "loop"
        /\ loops[handlers[q].pool].pc = "step"

=========================================================================
